---- MODULE Spec2Model ----
(***************************************************************************)
(* EthCollider.py: the worker loop (worker_generate_addresses), the        *)
(* retrying balance query (check_balance) and the supervising main block   *)
(* that spawns the workers, consumes the result queue and shuts down.      *)
(***************************************************************************)
EXTENDS Integers, Sequences, FiniteSets, TLC

VARIABLES
    api_key,            \* os.getenv('ETHERSCAN_API_KEY', ''): "" or "key"
    gtable_exists,      \* os.path.exists('lib/G_Table')
    oracle,             \* the responses the balance service may give in this run
    hashes,             \* the digests hashrand may return in this run
    suppc,              \* position of the main block
    started,            \* number of p.start() calls done (loop index i)
    termidx,            \* index of the process the finally block works on
    sigterm,            \* workers with a SIGTERM from p.terminate() pending
    found,              \* main: found
    worker_counts,      \* main: worker_counts
    total_checked,      \* main: total_checked
    reported,           \* the total printed by the finally block, <<>> before
    handled,            \* messages the main loop has taken from the queue
    result_queue,       \* manager.Queue(): messages put and not yet taken
    pc,                 \* position of each worker process
    addresses_checked,  \* worker: addresses_checked
    attempt,            \* check_balance: attempt
    balance,            \* worker: balance (return value of check_balance)
    calllog,            \* responses seen by the current check_balance call
    slept,              \* time.sleep durations done by the current call
    sent,               \* messages each worker has put, in order
    privkeynum,         \* worker: privkeynum (return value of randomforkey)
    drawn               \* digests drawn by randomforkey for the current candidate

vars == <<api_key, gtable_exists, oracle, suppc, started, termidx, sigterm,
          found, worker_counts, total_checked, reported, handled,
          result_queue, pc, addresses_checked, attempt, balance, calllog,
          slept, sent, hashes, privkeynum, drawn>>

supvars == <<suppc, started, termidx, sigterm, found, worker_counts,
             total_checked, reported, handled>>

envvars == <<api_key, gtable_exists, oracle, hashes>>

keyvars == <<privkeynum, drawn>>

(***************************************************************************)
(* Bounds and program constants                                            *)
(***************************************************************************)
\* multiprocessing.cpu_count() of the machine
num_processes == 2

\* cap on addresses_checked per worker in the full system
MaxChecked == 10

\* cap on addresses_checked of the worker run on its own
MaxCheckedAlone == 21

\* cap on the digests randomforkey draws for one candidate
MaxDraws == 3

max_retries_more == 3 + 1

max_retries == 3

retry_delay == 1

Workers == 0 .. (num_processes - 1)

(***************************************************************************)
(* Values: Python None, str (a sequence of decimal digits) and int         *)
(***************************************************************************)
NoneVal == [kind |-> "none", s |-> <<>>, n |-> 0]

StrVal(digits) == [kind |-> "str", s |-> digits, n |-> 0]

IntVal(i) == [kind |-> "int", s |-> <<>>, n |-> i]

\* a 'result' key absent from the response
Missing == [kind |-> "missing", s |-> <<>>, n |-> 0]

\* bool(v)
Truthy(v) ==
    CASE v.kind = "str" -> Len(v.s) > 0
      [] v.kind = "int" -> v.n /= 0
      [] OTHER -> FALSE

\* v != '0'
NotStrZero(v) == ~(v.kind = "str" /\ v.s = <<0>>)

\* int(s) of a digit string
RECURSIVE StrToInt(_)
StrToInt(s) ==
    IF Len(s) = 0 THEN 0
    ELSE 10 * StrToInt(SubSeq(s, 1, Len(s) - 1)) + s[Len(s)]

(***************************************************************************)
(* The balance service                                                     *)
(***************************************************************************)
Resp(kind, status, ratelimit, result) ==
    [kind |-> kind, status |-> status, ratelimit |-> ratelimit, result |-> result]

Timeout == Resp("timeout", "", FALSE, Missing)

NetError == Resp("neterror", "", FALSE, Missing)

BadJson == Resp("badjson", "", FALSE, Missing)

OtherExc == Resp("exc", "", FALSE, Missing)

RateLimited == Resp("json", "0", TRUE, Missing)

ServiceError == Resp("json", "0", FALSE, Missing)

\* a rate-limit message under a status that is neither '0' nor '1'
OddStatus == Resp("json", "2", TRUE, Missing)

Success(v) == Resp("json", "1", FALSE, v)

Results == {Missing, NoneVal, StrVal(<<>>), StrVal(<<0>>), StrVal(<<0, 0>>),
            StrVal(<<7>>), IntVal(0), IntVal(7)}

AllResponses == {Timeout, NetError, BadJson, OtherExc, RateLimited,
                 ServiceError, OddStatus} \cup {Success(v) : v \in Results}

Zero == Success(StrVal(<<0>>))

Positive == Success(StrVal(<<7>>))

\* what the service may answer in one run of the full system
OracleProfiles == {{Zero}, {Zero, Positive}, {Timeout}}

(***************************************************************************)
(* check_balance                                                           *)
(***************************************************************************)
\* data.get('status') == '0' and 'rate limit' in data.get('message', '').lower()
IsRateLimit(resp) == resp.status = "0" /\ resp.ratelimit

\* data.get('result', '0')
ResultOf(resp) ==
    IF resp.result.kind = "missing" THEN StrVal(<<0>>) ELSE resp.result

RateLimitDelaySame(att) == retry_delay

\* time.sleep(retry_delay * (attempt + 1))
RateLimitDelay(att) == retry_delay * (att + 1)

RetryDelayNone(att) == 0

\* if attempt < max_retries - 1: time.sleep(retry_delay)
RetryDelay(att) == IF att < max_retries - 1 THEN retry_delay ELSE 0

Outcome(act, ret, delay) == [act |-> act, ret |-> ret, delay |-> delay]

HandleResponseRetryAll(resp, att) ==
    CASE resp.kind = "json" /\ IsRateLimit(resp) ->
            Outcome("next", NoneVal, RateLimitDelay(att))
      [] resp.kind = "json" /\ ~IsRateLimit(resp) /\ resp.status = "1" ->
            Outcome("return", ResultOf(resp), 0)
      [] OTHER -> Outcome("next", NoneVal, RetryDelay(att))

HandleResponseErrorResult(resp, att) ==
    CASE resp.kind = "json" /\ IsRateLimit(resp) ->
            Outcome("next", NoneVal, RateLimitDelay(att))
      [] resp.kind = "json" /\ ~IsRateLimit(resp) ->
            Outcome("return", ResultOf(resp), 0)
      [] resp.kind \in {"timeout", "neterror"} ->
            Outcome("next", NoneVal, RetryDelay(att))
      [] OTHER -> Outcome("return", NoneVal, 0)

\* one pass of the for body: the request, the parse and the branch taken
HandleResponse(resp, att) ==
    CASE resp.kind = "json" /\ IsRateLimit(resp) ->
            Outcome("next", NoneVal, RateLimitDelay(att))
      [] resp.kind = "json" /\ ~IsRateLimit(resp) /\ resp.status = "1" ->
            Outcome("return", ResultOf(resp), 0)
      [] resp.kind = "json" /\ ~IsRateLimit(resp) /\ resp.status /= "1" ->
            Outcome("return", NoneVal, 0)
      [] resp.kind \in {"timeout", "neterror"} ->
            Outcome("next", NoneVal, RetryDelay(att))
      [] OTHER -> Outcome("return", NoneVal, 0)

(***************************************************************************)
(* randomforkey: 256-bit integers are 16 limbs of 16 bits, the most        *)
(* significant first; a digest is a string of 64 hexadecimal digits        *)
(***************************************************************************)
Limbs == 1 .. 16

\* r = 0xFFFFFFFFFFFFFFFFFFFFFFFFFFFFFFFEBAAEDCE6AF48A03BBFD25E8CD0364141
CurveOrder == <<65535, 65535, 65535, 65535, 65535, 65535, 65535, 65534,
                47790, 56550, 44872, 41019, 49106, 24204, 53302, 16705>>

\* candint = 0
ZeroInt == [i \in Limbs |-> 0]

OneInt == [i \in Limbs |-> IF i = 16 THEN 1 ELSE 0]

MaxInt == [i \in Limbs |-> 65535]

\* a < b on integers below 2^256
Less(a, b) ==
    \E i \in Limbs : a[i] < b[i] /\ \A j \in 1 .. (i - 1) : a[j] = b[j]

\* hashlib.sha256(...).hexdigest() of a digest whose value is n
HexDigest(n) ==
    [i \in 1 .. 64 |->
        (n[((i - 1) \div 4) + 1] \div (16 ^ (3 - ((i - 1) % 4)))) % 16]

\* int(cand, 16)
HexToInt(cand) ==
    [j \in Limbs |-> cand[4 * j - 3] * 4096 + cand[4 * j - 2] * 256
                     + cand[4 * j - 1] * 16 + cand[4 * j]]

\* the digests hashrand may return when the worker runs on its own:
\* 0, 1, r - 1, r and 2^256 - 1
AllHashes == {HexDigest(ZeroInt), HexDigest(OneInt),
              HexDigest([CurveOrder EXCEPT ![16] = @ - 1]),
              HexDigest(CurveOrder), HexDigest(MaxInt)}

RejectedAboveOrder(candint) == Less(candint, OneInt) \/ Less(CurveOrder, candint)

\* while candint < 1 or candint >= r
Rejected(candint) == Less(candint, OneInt) \/ ~Less(candint, CurveOrder)

\* randomforkey has returned the last digest drawn
KeyReturned(d) == d /= <<>> /\ ~Rejected(HexToInt(d[Len(d)]))

(***************************************************************************)
(* Messages                                                                *)
(***************************************************************************)
Msg(type, w, count, bal) ==
    [type |-> type, worker_id |-> w, count |-> count, balance |-> bal]

HasCount(m) == m.type \in {"progress", "stopped"}

ProgressDueFive(n) == n % 5 = 0

\* addresses_checked % 10 == 0
ProgressDue(n) == n % 10 = 0

\* balance and balance != '0'
FoundCondition(v) == Truthy(v) /\ NotStrZero(v)

(***************************************************************************)
(* worker_generate_addresses                                               *)
(***************************************************************************)
\* positions inside the try block
InTry == {"keygen", "derive", "query", "request", "backoff", "sleep",
          "report", "test", "foundput", "brk"}

Alive(w) == pc[w] \in InTry \cup {"load", "stoppedput", "errorput"}

PutFront(w, m) ==
    /\ result_queue' = <<m>> \o result_queue
    /\ sent' = [sent EXCEPT ![w] = Append(@, m)]

PutBounded(w, m) ==
    /\ Len(result_queue) < 1
    /\ result_queue' = Append(result_queue, m)
    /\ sent' = [sent EXCEPT ![w] = Append(@, m)]

\* result_queue.put(...) on the manager.Queue(), which has no maximum size
Put(w, m) ==
    /\ result_queue' = Append(result_queue, m)
    /\ sent' = [sent EXCEPT ![w] = Append(@, m)]

Cap == IF suppc = "none" THEN MaxCheckedAlone ELSE MaxChecked

\* load_gtable(gtable_path); addresses_checked = 0
LoadGtable(w) ==
    /\ pc[w] = "load"
    /\ pc' = [pc EXCEPT ![w] = "keygen"]
    /\ addresses_checked' = [addresses_checked EXCEPT ![w] = 0]
    /\ UNCHANGED <<envvars, supvars, keyvars, result_queue, attempt, balance, calllog,
                   slept, sent>>

\* load_gtable raises: it is called before the try block, so the exception
\* leaves worker_generate_addresses and the process ends
LoadGtableRaises(w) ==
    /\ pc[w] = "load"
    /\ pc' = [pc EXCEPT ![w] = "raised"]
    /\ UNCHANGED <<envvars, supvars, keyvars, result_queue, addresses_checked, attempt,
                   balance, calllog, slept, sent>>

\* privkeynum = randomforkey(): one pass of its while loop, which draws a
\* digest and either goes round again or returns
RandomForKey(w) ==
    /\ pc[w] = "keygen"
    /\ addresses_checked[w] < Cap
    /\ \E cand \in hashes :
         LET candint == HexToInt(cand)
             d == IF KeyReturned(drawn[w]) THEN <<cand>>
                  ELSE Append(drawn[w], cand)
         IN /\ Len(d) <= MaxDraws
            /\ drawn' = [drawn EXCEPT ![w] = d]
            /\ IF Rejected(candint)
               THEN UNCHANGED <<pc, privkeynum>>
               ELSE /\ pc' = [pc EXCEPT ![w] = "derive"]
                    /\ privkeynum' = [privkeynum EXCEPT ![w] = candint]
    /\ UNCHANGED <<envvars, supvars, result_queue, addresses_checked, attempt,
                   balance, calllog, slept, sent>>

\* address = compute_adr(privkeynum) succeeds; addresses_checked += 1
ComputeAdr(w) ==
    /\ pc[w] = "derive"
    /\ pc' = [pc EXCEPT ![w] = "query"]
    /\ addresses_checked' = [addresses_checked EXCEPT ![w] = @ + 1]
    /\ drawn' = [drawn EXCEPT ![w] = <<>>]
    /\ UNCHANGED <<envvars, supvars, privkeynum, result_queue, attempt, balance,
                   calllog, slept, sent>>

ComputeAdrFailsCounts(w) ==
    /\ pc[w] = "derive"
    /\ pc' = [pc EXCEPT ![w] = "keygen"]
    /\ addresses_checked' = [addresses_checked EXCEPT ![w] = @ + 1]
    /\ UNCHANGED <<envvars, supvars, keyvars, result_queue, attempt,
                   balance, calllog, slept, sent>>

\* compute_adr catches an Exception and returns "x": continue
ComputeAdrFails(w) ==
    /\ pc[w] = "derive"
    /\ pc' = [pc EXCEPT ![w] = "keygen"]
    /\ UNCHANGED <<envvars, supvars, keyvars, result_queue, addresses_checked, attempt,
                   balance, calllog, slept, sent>>

\* compute_adr catches a KeyboardInterrupt and returns "x": continue
ComputeAdrInterrupted(w) ==
    /\ pc[w] = "derive"
    /\ pc' = [pc EXCEPT ![w] = "keygen"]
    /\ UNCHANGED <<envvars, supvars, keyvars, result_queue, addresses_checked, attempt,
                   balance, calllog, slept, sent>>

\* check_balance entry: the api_key test and the start of the for loop
CheckBalance(w) ==
    /\ pc[w] = "query"
    /\ IF api_key = ""
       THEN /\ pc' = [pc EXCEPT ![w] = "sleep"]
            /\ balance' = [balance EXCEPT ![w] = NoneVal]
       ELSE /\ pc' = [pc EXCEPT ![w] = "request"]
            /\ UNCHANGED balance
    /\ attempt' = [attempt EXCEPT ![w] = 0]
    /\ UNCHANGED <<envvars, supvars, keyvars, result_queue, addresses_checked, calllog,
                   slept, sent>>

NextAttemptStuck(w, a) ==
    /\ pc' = [pc EXCEPT ![w] = "request"]
    /\ UNCHANGED <<attempt, balance>>

\* the loop of check_balance goes on to attempt a + 1, or ends: return None
NextAttempt(w, a) ==
    IF a + 1 < max_retries
    THEN /\ pc' = [pc EXCEPT ![w] = "request"]
         /\ attempt' = [attempt EXCEPT ![w] = a + 1]
         /\ UNCHANGED balance
    ELSE /\ pc' = [pc EXCEPT ![w] = "sleep"]
         /\ balance' = [balance EXCEPT ![w] = NoneVal]
         /\ UNCHANGED attempt

\* requests.get ... and the branch taken on its outcome
Request(w) ==
    /\ pc[w] = "request"
    /\ \E resp \in oracle :
         LET h == HandleResponse(resp, attempt[w]) IN
         /\ calllog' = [calllog EXCEPT ![w] = Append(@, resp)]
         /\ IF h.act = "return"
            THEN /\ pc' = [pc EXCEPT ![w] = "sleep"]
                 /\ balance' = [balance EXCEPT ![w] = h.ret]
                 /\ UNCHANGED attempt
            ELSE IF h.delay > 0
            THEN /\ pc' = [pc EXCEPT ![w] = "backoff"]
                 /\ UNCHANGED <<balance, attempt>>
            ELSE NextAttempt(w, attempt[w])
    /\ UNCHANGED <<envvars, supvars, keyvars, result_queue, addresses_checked, slept,
                   sent>>

\* time.sleep inside check_balance, then the next pass of the for loop
Backoff(w) ==
    /\ pc[w] = "backoff"
    /\ LET h == HandleResponse(calllog[w][Len(calllog[w])], attempt[w]) IN
         slept' = [slept EXCEPT ![w] = Append(@, h.delay)]
    /\ NextAttempt(w, attempt[w])
    /\ UNCHANGED <<envvars, supvars, keyvars, result_queue, addresses_checked, calllog,
                   sent>>

\* time.sleep(0.2)
Sleep(w) ==
    /\ pc[w] = "sleep"
    /\ pc' = [pc EXCEPT ![w] = "report"]
    /\ calllog' = [calllog EXCEPT ![w] = <<>>]
    /\ slept' = [slept EXCEPT ![w] = <<>>]
    /\ UNCHANGED <<envvars, supvars, keyvars, result_queue, addresses_checked, attempt,
                   balance, sent>>

\* if addresses_checked % 10 == 0: result_queue.put(progress)
Report(w) ==
    /\ pc[w] = "report"
    /\ pc' = [pc EXCEPT ![w] = "test"]
    /\ IF ProgressDue(addresses_checked[w])
       THEN Put(w, Msg("progress", w, addresses_checked[w], NoneVal))
       ELSE UNCHANGED <<result_queue, sent>>
    /\ UNCHANGED <<envvars, supvars, keyvars, addresses_checked, attempt, balance,
                   calllog, slept>>

\* if balance and balance != '0': ... else: next iteration
TestBalance(w) ==
    /\ pc[w] = "test"
    /\ pc' = [pc EXCEPT ![w] =
                IF FoundCondition(balance[w]) THEN "foundput" ELSE "keygen"]
    /\ UNCHANGED <<envvars, supvars, keyvars, result_queue, addresses_checked, attempt,
                   balance, calllog, slept, sent>>

\* result_queue.put(found)
PutFound(w) ==
    /\ pc[w] = "foundput"
    /\ pc' = [pc EXCEPT ![w] = "brk"]
    /\ Put(w, Msg("found", w, 0, balance[w]))
    /\ UNCHANGED <<envvars, supvars, keyvars, addresses_checked, attempt, balance,
                   calllog, slept>>

\* break
Break(w) ==
    /\ pc[w] = "brk"
    /\ pc' = [pc EXCEPT ![w] = "done"]
    /\ UNCHANGED <<envvars, supvars, keyvars, result_queue, addresses_checked, attempt,
                   balance, calllog, slept, sent>>

\* KeyboardInterrupt raised in the try block outside compute_adr:
\* check_balance does not catch it (it is no Exception)
Interrupt(w) ==
    /\ pc[w] \in InTry \ {"derive"}
    /\ pc' = [pc EXCEPT ![w] = "stoppedput"]
    /\ calllog' = [calllog EXCEPT ![w] = <<>>]
    /\ slept' = [slept EXCEPT ![w] = <<>>]
    /\ drawn' = [drawn EXCEPT ![w] = <<>>]
    /\ UNCHANGED <<envvars, supvars, privkeynum, result_queue, addresses_checked, attempt,
                   balance, sent>>

\* KeyboardInterrupt raised before the try block or inside an except block:
\* it leaves worker_generate_addresses and the process ends
InterruptOutsideTry(w) ==
    /\ pc[w] \in {"load", "stoppedput", "errorput"}
    /\ pc' = [pc EXCEPT ![w] = "interrupted"]
    /\ UNCHANGED <<envvars, supvars, keyvars, result_queue, addresses_checked, attempt,
                   balance, calllog, slept, sent>>

\* except KeyboardInterrupt: result_queue.put(stopped)
PutStopped(w) ==
    /\ pc[w] = "stoppedput"
    /\ pc' = [pc EXCEPT ![w] = "done"]
    /\ Put(w, Msg("stopped", w, addresses_checked[w], NoneVal))
    /\ UNCHANGED <<envvars, supvars, keyvars, addresses_checked, attempt, balance,
                   calllog, slept>>

\* an Exception raised in the try block outside compute_adr and check_balance
Fault(w) ==
    /\ pc[w] \in {"keygen", "sleep", "report", "test", "foundput"}
    /\ pc' = [pc EXCEPT ![w] = "errorput"]
    /\ calllog' = [calllog EXCEPT ![w] = <<>>]
    /\ slept' = [slept EXCEPT ![w] = <<>>]
    /\ drawn' = [drawn EXCEPT ![w] = <<>>]
    /\ UNCHANGED <<envvars, supvars, privkeynum, result_queue, addresses_checked, attempt,
                   balance, sent>>

\* except Exception: result_queue.put(error)
PutError(w) ==
    /\ pc[w] = "errorput"
    /\ pc' = [pc EXCEPT ![w] = "done"]
    /\ Put(w, Msg("error", w, 0, NoneVal))
    /\ UNCHANGED <<envvars, supvars, keyvars, addresses_checked, attempt, balance,
                   calllog, slept>>

WorkerStep(w) ==
    \/ LoadGtable(w)
    \/ LoadGtableRaises(w)
    \/ RandomForKey(w)
    \/ ComputeAdr(w)
    \/ ComputeAdrFails(w)
    \/ ComputeAdrInterrupted(w)
    \/ CheckBalance(w)
    \/ Request(w)
    \/ Backoff(w)
    \/ Sleep(w)
    \/ Report(w)
    \/ TestBalance(w)
    \/ PutFound(w)
    \/ Break(w)
    \/ Interrupt(w)
    \/ InterruptOutsideTry(w)
    \/ PutStopped(w)
    \/ Fault(w)
    \/ PutError(w)

(***************************************************************************)
(* One worker run on its own against any service                           *)
(***************************************************************************)
InitCommon ==
    /\ started = 0
    /\ termidx = 0
    /\ sigterm = {}
    /\ found = FALSE
    /\ worker_counts = [w \in Workers |-> 0]
    /\ total_checked = 0
    /\ reported = <<>>
    /\ handled = <<>>
    /\ result_queue = <<>>
    /\ addresses_checked = [w \in Workers |-> 0]
    /\ attempt = [w \in Workers |-> 0]
    /\ balance = [w \in Workers |-> NoneVal]
    /\ calllog = [w \in Workers |-> <<>>]
    /\ slept = [w \in Workers |-> <<>>]
    /\ sent = [w \in Workers |-> <<>>]
    /\ privkeynum = [w \in Workers |-> ZeroInt]
    /\ drawn = [w \in Workers |-> <<>>]

InitWorker ==
    /\ InitCommon
    /\ api_key = "key"
    /\ gtable_exists = TRUE
    /\ oracle = AllResponses
    /\ hashes = AllHashes
    /\ suppc = "none"
    /\ pc = [w \in Workers |-> IF w = 0 THEN "load" ELSE "unstarted"]

NextWorker == WorkerStep(0)

SpecWorker == InitWorker /\ [][NextWorker]_vars

(***************************************************************************)
(* The main block                                                          *)
(***************************************************************************)
workervars == <<pc, addresses_checked, attempt, balance, calllog, slept, sent,
                privkeynum, drawn>>

\* sum(worker_counts.values())
RECURSIVE SumCounts(_, _)
SumCounts(counts, ws) ==
    IF ws = {} THEN 0
    ELSE LET w == CHOOSE x \in ws : TRUE
         IN counts[w] + SumCounts(counts, ws \ {w})

\* api_key = os.getenv(...); if not api_key: sys.exit(1)
CheckApiKey ==
    /\ suppc = "start"
    /\ suppc' = IF api_key = "" THEN "exit1" ELSE "gtable"
    /\ UNCHANGED <<envvars, started, termidx, sigterm, found, worker_counts,
                   total_checked, reported, handled, result_queue, workervars>>

CheckGtableNoExit ==
    /\ suppc = "gtable"
    /\ suppc' = "spawn"
    /\ UNCHANGED <<envvars, started, termidx, sigterm, found, worker_counts,
                   total_checked, reported, handled, result_queue, workervars>>

\* if not os.path.exists(gtable_path): sys.exit(1); load_gtable; Manager().Queue()
CheckGtable ==
    /\ suppc = "gtable"
    /\ suppc' = IF gtable_exists THEN "spawn" ELSE "exit1"
    /\ UNCHANGED <<envvars, started, termidx, sigterm, found, worker_counts,
                   total_checked, reported, handled, result_queue, workervars>>

\* one pass of the spawning loop: p.start(); after the last one the
\* monitoring state is initialised and the try block entered
StartWorker ==
    /\ suppc = "spawn"
    /\ started < num_processes
    /\ pc' = [pc EXCEPT ![started] = "load"]
    /\ started' = started + 1
    /\ suppc' = IF started + 1 = num_processes THEN "loop" ELSE "spawn"
    /\ total_checked' = 0
    /\ worker_counts' = [w \in Workers |-> 0]
    /\ found' = FALSE
    /\ UNCHANGED <<envvars, termidx, sigterm, reported, handled, result_queue,
                   addresses_checked, attempt, balance, calllog, slept, sent,
                   keyvars>>

HandleErrorFatal(result) ==
    /\ found' = TRUE
    /\ suppc' = "terminate"
    /\ UNCHANGED <<worker_counts, total_checked>>

\* elif result['type'] == 'error': print
HandleError(result) ==
    /\ UNCHANGED <<found, suppc, worker_counts, total_checked>>

HandleProgressNoSum(result) ==
    /\ worker_counts' = [worker_counts EXCEPT ![result.worker_id] = result.count]
    /\ UNCHANGED <<found, suppc, total_checked>>

\* if result['type'] == 'progress': worker_counts[...] = ...; total_checked = sum
HandleProgress(result) ==
    /\ worker_counts' = [worker_counts EXCEPT ![result.worker_id] = result.count]
    /\ total_checked' = SumCounts(worker_counts', Workers)
    /\ UNCHANGED <<found, suppc>>

HandleFoundContinues(result) ==
    /\ UNCHANGED <<found, suppc, worker_counts, total_checked>>

\* elif result['type'] == 'found': found = True; save_private_key(...);
\* the while condition then ends the loop and the finally block starts
HandleFound(result) ==
    /\ found' = TRUE
    /\ suppc' = "terminate"
    /\ UNCHANGED <<worker_counts, total_checked>>

\* elif result['type'] == 'stopped': print
HandleStopped(result) ==
    /\ UNCHANGED <<found, suppc, worker_counts, total_checked>>

\* while not found: if not result_queue.empty(): result = result_queue.get(); ...
Handle ==
    /\ suppc = "loop"
    /\ ~found
    /\ Len(result_queue) > 0
    /\ LET result == Head(result_queue) IN
         /\ result_queue' = Tail(result_queue)
         /\ handled' = Append(handled, result)
         /\ CASE result.type = "progress" -> HandleProgress(result)
              [] result.type = "found" -> HandleFound(result)
              [] result.type = "error" -> HandleError(result)
              [] result.type = "stopped" -> HandleStopped(result)
    /\ UNCHANGED <<envvars, started, termidx, sigterm, reported, workervars>>

\* except KeyboardInterrupt: print("Stopping workers..."); then finally
MainInterrupt ==
    /\ suppc = "loop"
    /\ suppc' = "terminate"
    /\ UNCHANGED <<envvars, started, termidx, sigterm, found, worker_counts,
                   total_checked, reported, handled, result_queue, workervars>>

\* KeyboardInterrupt while spawning (before the try) or inside the finally block
MainInterruptOutsideTry ==
    /\ suppc \in {"spawn", "terminate", "join", "report"}
    /\ suppc' = "crashed"
    /\ UNCHANGED <<envvars, started, termidx, sigterm, found, worker_counts,
                   total_checked, reported, handled, result_queue, workervars>>

\* finally: for p in processes: p.terminate()
Terminate ==
    /\ suppc = "terminate"
    /\ sigterm' = IF Alive(termidx) THEN sigterm \cup {termidx} ELSE sigterm
    /\ suppc' = "join"
    /\ UNCHANGED <<envvars, started, termidx, found, worker_counts,
                   total_checked, reported, handled, result_queue, workervars>>

\* SIGTERM reaches a worker: the default action ends the process
Sigterm(w) ==
    /\ w \in sigterm
    /\ Alive(w)
    /\ pc' = [pc EXCEPT ![w] = "terminated"]
    /\ UNCHANGED <<envvars, supvars, keyvars, result_queue, addresses_checked, attempt,
                   balance, calllog, slept, sent>>

JoinNoKill ==
    /\ suppc = "join"
    /\ termidx' = termidx + 1
    /\ suppc' = IF termidx + 1 = num_processes THEN "report" ELSE "terminate"
    /\ UNCHANGED <<envvars, started, sigterm, found, worker_counts,
                   total_checked, reported, handled, result_queue, workervars>>

\* p.join(timeout=5) returns; if p.is_alive(): p.kill(); next p
JoinKill ==
    /\ suppc = "join"
    /\ pc' = IF Alive(termidx) THEN [pc EXCEPT ![termidx] = "killed"] ELSE pc
    /\ termidx' = termidx + 1
    /\ suppc' = IF termidx + 1 = num_processes THEN "report" ELSE "terminate"
    /\ UNCHANGED <<envvars, started, sigterm, found, worker_counts,
                   total_checked, reported, handled, result_queue,
                   addresses_checked, attempt, balance, calllog, slept, sent,
                   keyvars>>

\* print(f"Total addresses checked: {total_checked}"); print("Shutdown complete.")
ReportTotal ==
    /\ suppc = "report"
    /\ reported' = <<total_checked>>
    /\ suppc' = "done"
    /\ UNCHANGED <<envvars, started, termidx, sigterm, found, worker_counts,
                   total_checked, handled, result_queue, workervars>>

Init ==
    /\ InitCommon
    /\ api_key \in {"", "key"}
    /\ gtable_exists \in BOOLEAN
    /\ oracle \in OracleProfiles
    /\ hashes = {HexDigest(OneInt)}
    /\ suppc = "start"
    /\ pc = [w \in Workers |-> "unstarted"]

Next ==
    \/ CheckApiKey
    \/ CheckGtable
    \/ StartWorker
    \/ Handle
    \/ MainInterrupt
    \/ MainInterruptOutsideTry
    \/ Terminate
    \/ JoinKill
    \/ ReportTotal
    \/ \E w \in Workers : Sigterm(w) \/ WorkerStep(w)

Spec == Init /\ [][Next]_vars

(***************************************************************************)
(* Properties of one worker                                                *)
(***************************************************************************)
IsFound(m) == m.type = "found"

IsProgress(m) == m.type = "progress"

IsStopped(m) == m.type = "stopped"

IsError(m) == m.type = "error"

\* the amount a returned value denotes is greater than zero
DenotesPositive(v) ==
    \/ v.kind = "str" /\ Len(v.s) > 0 /\ StrToInt(v.s) > 0
    \/ v.kind = "int" /\ v.n > 0

\* the check_balance call of worker w has returned and nothing ran since
Returned(w) == pc[w] = "sleep" /\ calllog[w] /= <<>>

\* C1: a worker puts at most one 'found' message and puts no message of any
\* type after it: a 'found' message is the last message the worker has put.
C1_FoundIsLast ==
    \A w \in Workers : \A i \in 1 .. Len(sent[w]) :
        IsFound(sent[w][i]) => i = Len(sent[w])

\* C2: at the balance test the worker goes on to emit 'found' if and only if
\* the value check_balance returned denotes an amount greater than zero;
\* otherwise it goes to the next iteration.
C2_FoundIffPositive ==
    [][\A w \in Workers :
          TestBalance(w) =>
             /\ (pc'[w] = "foundput") <=> DenotesPositive(balance[w])
             /\ (pc'[w] = "keygen") <=> ~DenotesPositive(balance[w])]_vars

\* C3: a KeyboardInterrupt delivered to a running worker at any point of its
\* loop body, compute_adr included, takes the worker out of the loop and to
\* the put of its one 'stopped' message with the current addresses_checked.
C3_InterruptStops ==
    [][\A w \in Workers :
          (Interrupt(w) \/ ComputeAdrInterrupted(w)) =>
             /\ pc'[w] = "stoppedput"
             /\ addresses_checked'[w] = addresses_checked[w]]_vars

\* C4: against a service that always answers zero, when the shutdown that
\* follows a user interrupt of the main block has completed, every worker
\* has put a 'stopped' message and the total has been reported.
C4_AllStoppedAtShutdown ==
    (suppc = "done" /\ oracle = {Zero} /\ ~found) =>
        /\ \A w \in Workers : \E i \in 1 .. Len(sent[w]) : IsStopped(sent[w][i])
        /\ reported = <<total_checked>>

\* C5: a check_balance call whose every request timed out or failed with a
\* network error never issues more than 3 requests, and when it returns it
\* has issued exactly 3 and returns None.
C5_TimeoutsMakeThreeRequests ==
    \A w \in Workers :
        (\A i \in 1 .. Len(calllog[w]) :
             calllog[w][i].kind \in {"timeout", "neterror"}) =>
           /\ Len(calllog[w]) <= 3
           /\ Returned(w) => Len(calllog[w]) = 3 /\ balance[w] = NoneVal

C5_Witness ==
    /\ Returned(0)
    /\ calllog[0] = <<Timeout, NetError, Timeout>>
    /\ balance[0] = NoneVal

\* C6: a check_balance call answered rate-limited twice and then with a
\* status '1' response returns the result of that third response, having
\* slept after the first and after the second attempt.
C6_RateLimitedThenSuccess ==
    \A w \in Workers :
        (/\ Returned(w)
         /\ Len(calllog[w]) = 3
         /\ calllog[w][1] = RateLimited
         /\ calllog[w][2] = RateLimited
         /\ calllog[w][3].kind = "json"
         /\ calllog[w][3].status = "1") =>
           /\ balance[w] = ResultOf(calllog[w][3])
           /\ slept[w] = <<1, 2>>

C6_Witness ==
    /\ Returned(0)
    /\ calllog[0] = <<RateLimited, RateLimited, Positive>>
    /\ balance[0] = StrVal(<<7>>)
    /\ slept[0] = <<1, 2>>

\* invalid JSON, or a status other than '1' without a rate-limit message
NonRetryable(resp) ==
    \/ resp.kind = "badjson"
    \/ resp.kind = "json" /\ resp.status /= "1" /\ ~resp.ratelimit

\* C7: a malformed response or an explicit service error is the last request
\* of its check_balance call, on whichever attempt it comes: the call has
\* returned None and issued no further request.
C7_NoRetryAfterBadResponse ==
    \A w \in Workers : \A i \in 1 .. Len(calllog[w]) :
        NonRetryable(calllog[w][i]) =>
           /\ i = Len(calllog[w])
           /\ pc[w] = "sleep"
           /\ balance[w] = NoneVal

C7_Witness ==
    /\ Returned(0)
    /\ calllog[0] = <<Timeout, RateLimited, BadJson>>
    /\ balance[0] = NoneVal

Counted(w) == SelectSeq(sent[w], HasCount)

\* C8: the counts a worker's messages carry never decrease; its k-th
\* 'progress' message carries 10 * k; a count that is no multiple of 10 is
\* carried only by a 'stopped' message that is the worker's last message.
C8_ProgressInBatches ==
    \A w \in Workers :
        /\ \A i, j \in 1 .. Len(Counted(w)) :
               i < j => Counted(w)[i].count <= Counted(w)[j].count
        /\ \A k \in 1 .. Len(SelectSeq(sent[w], IsProgress)) :
               SelectSeq(sent[w], IsProgress)[k].count = 10 * k
        /\ \A i \in 1 .. Len(sent[w]) :
               (HasCount(sent[w][i]) /\ sent[w][i].count % 10 /= 0) =>
                   IsStopped(sent[w][i]) /\ i = Len(sent[w])

C8_Witness ==
    /\ Len(sent[0]) = 3
    /\ IsProgress(sent[0][1]) /\ sent[0][1].count = 10
    /\ IsProgress(sent[0][2]) /\ sent[0][2].count = 20
    /\ IsStopped(sent[0][3]) /\ sent[0][3].count = 21

\* C10: an exception raised in a worker at any step from its start, the
\* load_gtable call included, never leaves worker_generate_addresses: the
\* worker puts one 'error' message, as its last message, and exits.
C10_FaultEmitsError ==
    \A w \in Workers :
        /\ pc[w] /= "raised"
        /\ Len(SelectSeq(sent[w], IsError)) <= 1
        /\ \A i \in 1 .. Len(sent[w]) :
               IsError(sent[w][i]) => i = Len(sent[w]) /\ pc[w] = "done"

(***************************************************************************)
(* Properties of the whole system                                          *)
(***************************************************************************)
\* the main loop takes message m from the queue in this step
Takes(m) == handled' = Append(handled, m)

\* C9: handling an 'error' message leaves found, the main loop, every worker
\* and worker_counts as they are; a 'progress' message taken after an
\* 'error' was handled is still applied to worker_counts.
C9_ErrorIsNotFatal ==
    [][\A m \in {result_queue[i] : i \in 1 .. Len(result_queue)} :
          /\ (Takes(m) /\ IsError(m)) =>
                /\ found' = found
                /\ suppc' = "loop"
                /\ pc' = pc
                /\ sigterm' = sigterm
                /\ worker_counts' = worker_counts
          /\ (/\ Takes(m)
              /\ IsProgress(m)
              /\ \E i \in 1 .. Len(handled) : IsError(handled[i])) =>
                worker_counts'[m.worker_id] = m.count]_vars

C9_Witness ==
    \E i, j \in 1 .. Len(handled) :
        /\ i < j
        /\ IsError(handled[i])
        /\ IsProgress(handled[j])
        /\ handled[j].worker_id /= handled[i].worker_id
        /\ worker_counts[handled[j].worker_id] = 10
        /\ ~found
        /\ suppc = "loop"
        /\ Alive(handled[j].worker_id)

\* the count of the last message carrying one that the main loop has taken
\* from worker w, 0 when there is none
RECURSIVE LastCount(_, _)
LastCount(w, msgs) ==
    IF msgs = <<>> THEN 0
    ELSE LET m == msgs[Len(msgs)]
         IN IF m.worker_id = w /\ HasCount(m) THEN m.count
            ELSE LastCount(w, SubSeq(msgs, 1, Len(msgs) - 1))

\* C11: when the shutdown has completed, on whichever path, the total
\* reported is the sum over the workers of the last count the main loop has
\* received from each in a 'progress' or 'stopped' message.
C11_TotalIsSumOfLastCounts ==
    suppc = "done" =>
        reported = <<SumCounts([w \in Workers |-> LastCount(w, handled)], Workers)>>

\* C12: in the shutdown that follows a 'found' message or a user interrupt,
\* each worker in turn is sent the termination signal before it is waited
\* for, a worker is force-killed only at the end of its wait, having been
\* signalled and being still alive, and when the shutdown block completes no
\* worker is running.
C12_ShutdownLeavesNoWorker ==
    [][/\ \A w \in Workers :
             (pc'[w] = "killed" /\ pc[w] /= "killed") =>
                 /\ suppc = "join"
                 /\ termidx = w
                 /\ w \in sigterm
                 /\ Alive(w)
       /\ (suppc = "join" /\ Alive(termidx)) => termidx \in sigterm
       /\ (suppc \in {"terminate", "join"}) =>
             \A w \in 0 .. (termidx - 1) : ~Alive(w)
       /\ (suppc' \in {"report", "done"}) =>
             /\ termidx' = num_processes
             /\ \A w \in Workers : pc'[w] \notin InTry \cup {"load", "stoppedput", "errorput", "unstarted"}]_vars

C12_Witness ==
    /\ suppc = "done"
    /\ found
    /\ \E w \in Workers : pc[w] = "killed"
    /\ \E w \in Workers : pc[w] = "terminated"

\* every worker has exited after putting a 'stopped' or an 'error' message
\* and none has put a 'found' message
AllStoppedNoFound ==
    \A w \in Workers :
        /\ pc[w] = "done"
        /\ sent[w] /= <<>>
        /\ IsStopped(sent[w][Len(sent[w])]) \/ IsError(sent[w][Len(sent[w])])
        /\ \A i \in 1 .. Len(sent[w]) : ~IsFound(sent[w][i])

\* C13: when every worker has exited with 'stopped' or 'error', no 'found'
\* message was produced and the main loop has taken every message, the main
\* block can leave the monitoring loop by a step of its own, without an
\* interrupt from outside.
C13_AllStoppedEndsLoop ==
    (suppc = "loop" /\ AllStoppedNoFound /\ result_queue = <<>>) =>
        ENABLED (Handle \/ Terminate)

\* C14: when the API key is absent or the table file is missing, the main
\* block never gets past its two startup checks: it is at one of them or has
\* exited with status 1, the table check is reached only with a key, no
\* worker has been created or started and no request has been issued.
C14_StartupFailureSpawnsNothing ==
    (api_key = "" \/ ~gtable_exists) =>
        /\ suppc \in {"start", "gtable", "exit1"}
        /\ suppc = "gtable" => api_key /= ""
        /\ started = 0
        /\ \A w \in Workers :
               /\ pc[w] = "unstarted"
               /\ calllog[w] = <<>>
               /\ addresses_checked[w] = 0
               /\ sent[w] = <<>>

C14_Witness ==
    /\ suppc = "exit1"
    /\ api_key = "key"
    /\ ~gtable_exists
    /\ started = 0

(***************************************************************************)
(* Properties of key generation and of one check_balance call              *)
(***************************************************************************)
\* 1 <= k < CurveOrder
ValidKey(k) == k /= ZeroInt /\ Less(k, CurveOrder)

\* C15: when randomforkey has returned, the key is the integer value of the
\* last digest drawn, it satisfies 1 <= key < CurveOrder, and every digest
\* drawn before it in that call was 0 or at least CurveOrder; a key a worker
\* holds is never out of range.
C15_KeyInRange ==
    \A w \in Workers :
        /\ pc[w] = "derive" =>
              /\ drawn[w] /= <<>>
              /\ privkeynum[w] = HexToInt(drawn[w][Len(drawn[w])])
              /\ ValidKey(privkeynum[w])
              /\ \A i \in 1 .. (Len(drawn[w]) - 1) :
                     ~ValidKey(HexToInt(drawn[w][i]))
        /\ privkeynum[w] /= ZeroInt => ValidKey(privkeynum[w])

C15_Witness ==
    /\ pc[0] = "derive"
    /\ drawn[0] = <<HexDigest(ZeroInt), HexDigest(CurveOrder),
                    HexDigest([CurveOrder EXCEPT ![16] = @ - 1])>>
    /\ privkeynum[0] = [CurveOrder EXCEPT ![16] = @ - 1]

(***************************************************************************)
(* Properties of the result queue                                          *)
(***************************************************************************)
\* C16: a worker that has reached a put of a 'progress', 'found', 'stopped'
\* or 'error' message can always take that step, whatever the queue holds
\* and wherever the main block is, the monitoring loop left included.
C16_PutNeverBlocks ==
    \A w \in Workers :
        /\ pc[w] = "report" => ENABLED Report(w)
        /\ pc[w] = "foundput" => ENABLED PutFound(w)
        /\ pc[w] = "stoppedput" => ENABLED PutStopped(w)
        /\ pc[w] = "errorput" => ENABLED PutError(w)

C16_Witness ==
    /\ suppc = "crashed"
    /\ Len(result_queue) >= 2
    /\ \E w \in Workers : pc[w] \in {"report", "stoppedput", "errorput"}

\* C17: within one check_balance call, the sleep that follows the k-th
\* attempt, when that attempt ended in a Timeout or a network error, lasts
\* k times the retry delay.
C17_LinearBackoffAfterTimeout ==
    \A w \in Workers : \A k \in 1 .. Len(slept[w]) :
        calllog[w][k].kind \in {"timeout", "neterror"} =>
            slept[w][k] = k * retry_delay

\* worker w is inside the for loop of check_balance
InCall(w) == pc[w] \in {"request", "backoff"}

\* C18: whatever mix of outcomes the requests of one check_balance call
\* have, the call has issued at most 3 requests, the attempt number counts
\* them, and every step that stays inside the call adds one request or one
\* sleep to it, at most one sleep per request: the call ends after at most
\* 3 requests.
C18_AtMostThreeRequests ==
    [][\A w \in Workers :
          /\ Len(calllog'[w]) <= 3
          /\ Len(slept'[w]) <= Len(calllog'[w])
          /\ (pc'[w] = "request") =>
                attempt'[w] = Len(calllog'[w]) /\ attempt'[w] < 3
          /\ (InCall(w) /\ InCall(w)' /\ <<pc[w], calllog[w], slept[w]>> /=
                                         <<pc[w], calllog[w], slept[w]>>') =>
                Len(calllog'[w]) + Len(slept'[w]) =
                    Len(calllog[w]) + Len(slept[w]) + 1]_vars

C18_Witness ==
    /\ Returned(0)
    /\ calllog[0] = <<Timeout, RateLimited, ServiceError>>
    /\ slept[0] = <<1, 2>>
    /\ balance[0] = NoneVal

(***************************************************************************)
(* Properties of the worker loop                                           *)
(***************************************************************************)
\* C19: a step in which compute_adr does not hand back an address takes the
\* worker from the derivation straight back to the drawing of a candidate,
\* with addresses_checked as it was, no request issued, no message put and
\* nothing of the worker's other state changed.
C19_FailedDerivationSkips ==
    [][\A w \in Workers :
          (pc[w] = "derive" /\ pc'[w] \notin {"derive", "query"}) =>
             /\ pc'[w] = "keygen"
             /\ addresses_checked'[w] = addresses_checked[w]
             /\ calllog[w] = <<>> /\ calllog'[w] = <<>>
             /\ sent' = sent
             /\ result_queue' = result_queue
             /\ balance' = balance]_vars

C19_Witness ==
    /\ pc[0] = "keygen"
    /\ KeyReturned(drawn[0])
    /\ addresses_checked[0] = 1
    /\ sent[0] = <<>>

\* a request that did not end in a parsed response of status '1'
QueryError(resp) == ~(resp.kind = "json" /\ resp.status = "1")

\* C20: a request that ends in a query error keeps the worker inside
\* check_balance or returns None from it, with the candidate already counted
\* and no message put; the worker carries that None unchanged to the balance
\* test, which sends it to the next iteration without a message: no query
\* error leads to a 'found', 'error' or 'stopped' put or ends the worker.
C20_QueryErrorIsNotFatal ==
    [][\A w \in Workers :
          /\ (Request(w) \/ Backoff(w)) =>
                /\ pc'[w] \in {"request", "backoff", "sleep"}
                /\ sent' = sent
                /\ addresses_checked' = addresses_checked
                /\ addresses_checked[w] >= 1
                /\ (pc'[w] = "sleep" /\ QueryError(calllog'[w][Len(calllog'[w])])) =>
                      balance'[w] = NoneVal
          /\ (Sleep(w) \/ Report(w)) =>
                /\ balance' = balance
                /\ \A i \in 1 .. Len(sent'[w]) : IsProgress(sent'[w][i])
          /\ (TestBalance(w) /\ balance[w] = NoneVal) =>
                /\ pc'[w] = "keygen"
                /\ sent' = sent]_vars

C20_Witness ==
    /\ Returned(0)
    /\ calllog[0] = <<RateLimited, RateLimited, RateLimited>>
    /\ slept[0] = <<1, 2, 3>>
    /\ balance[0] = NoneVal
    /\ addresses_checked[0] = 2
    /\ sent[0] = <<>>

(***************************************************************************)
(* Properties of the spacing of requests                                   *)
(***************************************************************************)
\* worker w issues a request in this step
Requests(w) == Len(calllog'[w]) > Len(calllog[w])

\* worker w will issue no further request
Exited(w) ==
    pc[w] \in {"stoppedput", "errorput", "done", "terminated", "killed",
               "raised", "interrupted"}

\* C21: a request of a worker leaves it before a sleep, the backoff sleep
\* inside check_balance or the 0.2 s sleep after it; from there it moves on
\* only by sleeping a positive time or by ending, and a worker that has
\* ended issues no request: two successive requests of one worker always
\* have a sleep between them.  A worker that is about to issue a request can
\* do so while another worker is sleeping.
C21_RequestsAreSpaced ==
    /\ [](\A w, v \in Workers :
             (pc[w] = "request" /\ pc[v] \in {"backoff", "sleep"}) =>
                 ENABLED Request(w))
    /\ [][\A w \in Workers :
             /\ Requests(w) => pc[w] = "request" /\ pc'[w] \in {"backoff", "sleep"}
             /\ (pc[w] = "backoff" /\ pc'[w] /= "backoff") =>
                   \/ /\ Len(slept'[w]) = Len(slept[w]) + 1
                      /\ slept'[w][Len(slept'[w])] > 0
                   \/ Exited(w)'
             /\ (pc[w] = "sleep" /\ pc'[w] /= "sleep") =>
                   pc'[w] = "report" \/ Exited(w)'
             /\ Exited(w) => Exited(w)' /\ ~Requests(w)]_vars

C21_Witness ==
    /\ pc[0] = "backoff"
    /\ calllog[0] = <<Timeout>>
    /\ pc[1] = "request"
    /\ calllog[1] = <<Timeout, Timeout>>
    /\ slept[1] = <<1, 1>>

(***************************************************************************)
(* Properties of the main block's bookkeeping                              *)
(***************************************************************************)
\* the messages of worker w in msgs, in their order in msgs
FromWorker(msgs, w) == SelectSeq(msgs, LAMBDA m : m.worker_id = w)

\* C22: the messages of a worker that the main loop has taken, followed by
\* those of that worker still in the queue, are exactly the messages the
\* worker has put, in the order it put them: they are taken in that order
\* and each at most once; worker_counts[w] never goes down in a step and is
\* the count of the last 'progress' message taken from w.
C22_PerWorkerOrderKept ==
    [][\A w \in Workers :
          /\ FromWorker(handled', w) \o FromWorker(result_queue', w) = sent'[w]
          /\ worker_counts'[w] >= worker_counts[w]
          /\ LET progress == SelectSeq(FromWorker(handled', w), IsProgress)
             IN worker_counts'[w] =
                    IF progress = <<>> THEN 0
                    ELSE progress[Len(progress)].count]_vars

C22_Witness ==
    /\ Len(handled) = 3
    /\ IsProgress(handled[1]) /\ handled[1].worker_id = 0
    /\ handled[2].worker_id = 1
    /\ IsStopped(handled[3]) /\ handled[3].worker_id = 0
    /\ worker_counts[0] = 10
    /\ suppc = "loop"

\* worker w has gone past the iteration in which its last query returned:
\* it is drawing or checking another candidate, or has left its loop
PastIteration(w) ==
    pc[w] \in {"keygen", "derive", "query", "request", "backoff",
               "stoppedput", "errorput", "done"}

\* C23: a worker whose query returned a positive balance does not go on to
\* another candidate and does not leave its loop without having put a
\* 'found' message that carries that balance.
C23_FoundKeyNotLost ==
    \A w \in Workers :
        (DenotesPositive(balance[w]) /\ PastIteration(w)) =>
            \E i \in 1 .. Len(sent[w]) :
                IsFound(sent[w][i]) /\ sent[w][i].balance = balance[w]

\* counts[0] + ... + counts[n]
RECURSIVE SumUpTo(_, _)
SumUpTo(counts, n) == IF n < 0 THEN 0 ELSE counts[n] + SumUpTo(counts, n - 1)

\* total_checked is the sum of worker_counts, whose keys are the worker ids
TotalMatches ==
    /\ DOMAIN worker_counts = Workers
    /\ total_checked = SumUpTo(worker_counts, num_processes - 1)

\* C24: in every state total_checked is the sum of the values of
\* worker_counts and the keys of worker_counts are exactly the worker ids;
\* a step that takes an 'error', 'stopped' or 'found' message leaves
\* worker_counts and total_checked as they are.
C24_TotalIsSumOfCounts ==
    [][/\ TotalMatches
       /\ TotalMatches'
       /\ \A m \in {result_queue[i] : i \in 1 .. Len(result_queue)} :
             (Takes(m) /\ (IsError(m) \/ IsStopped(m) \/ IsFound(m))) =>
                 /\ worker_counts' = worker_counts
                 /\ total_checked' = total_checked]_vars

C24_Witness ==
    /\ worker_counts = [w \in Workers |-> IF w = 0 THEN 10 ELSE 0]
    /\ total_checked = 10
    /\ \E i, j \in 1 .. Len(handled) :
          /\ i < j
          /\ IsProgress(handled[i])
          /\ IsStopped(handled[j]) \/ IsError(handled[j])

\* C25: the main block takes at most one 'found' message, that message is
\* the last it takes, and once found is set or the monitoring loop is left no
\* step takes anything from the queue: what is queued then, or put later,
\* stays unprocessed.
C25_NothingTakenAfterFound ==
    [][/\ Len(SelectSeq(handled', IsFound)) <= 1
       /\ \A i \in 1 .. Len(handled') :
             IsFound(handled'[i]) => i = Len(handled') /\ found'
       /\ (found \/ suppc /= "loop") =>
             /\ handled' = handled
             /\ Len(result_queue') >= Len(result_queue)
             /\ SubSeq(result_queue', 1, Len(result_queue)) = result_queue
             /\ worker_counts' = worker_counts
             /\ total_checked' = total_checked]_vars

C25_Witness ==
    /\ found
    /\ suppc = "done"
    /\ handled /= <<>> /\ IsFound(handled[Len(handled)])
    /\ \E i \in 1 .. Len(result_queue) : IsFound(result_queue[i])
    /\ \E i \in 1 .. Len(result_queue) : IsStopped(result_queue[i])

====
